---------------------------- MODULE Spec2Model ----------------------------
(***************************************************************************)
(* Model of the two Socket.IO brokers of echo-app.                         *)
(*                                                                         *)
(*   src/server/server.js   code-based rendezvous (create_room/join_room)  *)
(*   src/unnamed/part_000   attribute matchmaking (join_queue)             *)
(*                                                                         *)
(* Each broker is one Node process: an inbound event is handled to the end *)
(* before the next one, so every handler is one action.  The two brokers   *)
(* are two programs with their own specification (SpecRooms, SpecMatch);   *)
(* they share the transport state every Socket.IO server has (the sockets  *)
(* and the adapter's rooms).                                               *)
(***************************************************************************)
EXTENDS Integers, Sequences, FiniteSets, TLC

\* ------------------------------------------------------------------ bounds
MaxJoined == 4      \* server.js: rendezvous-room memberships held at once
MaxMatched == 2     \* part_000: match-room memberships held at once
MaxQueued == 2      \* part_000: waiting entries held at once

\* ------------------------------------------------------------- vocabulary
\* The sockets that ever connect, by socket.id.
Conns == {"s1", "s2", "s3"}

\* The order in which their ids are handed out.
SocketOrder == <<"s1", "s2", "s3">>

\* generateRoomCode: floor(100000 + random * 900000).toString(), random in
\* [0, 1): a six-digit string.  The model draws from the two ends of the range.
generateRoomCode == {"100000", "999999"}
Codes == generateRoomCode

\* Property names every object literal {} inherits from Object.prototype.
ProtoKeys == {"constructor"}

\* Two of the tags the client offers (app/page.tsx), and the two roles.
Emotions == {"Anxiety", "Anger"}
Roles == {"vent", "listen"}

\* data = { text: "..." } OR { image: "base64..." }
Payloads == {[text |-> "hi"], [image |-> "base64"]}

NotFoundMsg == "Invalid Code. Room does not exist."
FullMsg == "Room is full or locked."

\* Names of adapter rooms: the socket's own room, a rendezvous code, a match.
SidRoom(s) == <<"sid", s, "">>
CodeRoom(code) == <<"code", code, "">>
MatchRoom(a, b) == <<"room", a, b>>

VARIABLES
    status,       \* socket id -> "idle" | "connected" | "closed"
    socketRooms,  \* socket id -> socket.rooms, in insertion order
    activeRooms,  \* server.js: code -> [users, locked]
    queues,       \* part_000: role -> (emotion -> waiting list)
    emitted,      \* the events the last handler sent
    lastEvent,    \* the inbound event the last handler handled
    crashed       \* a handler threw: the process is gone

vars == <<status, socketRooms, activeRooms, queues, emitted, lastEvent, crashed>>

\* ---------------------------------------------------------------- transport
InRoom(s, r) == \E i \in 1..Len(socketRooms[s]) : socketRooms[s][i] = r

\* adapter.rooms.get(r): the sockets currently in room r
Members(r) == {c \in Conns : InRoom(c, r)}

\* socket.join(r): socket.rooms is a Set, a second join changes nothing
Join(s, r) ==
    IF InRoom(s, r) THEN socketRooms
    ELSE [socketRooms EXCEPT ![s] = Append(@, r)]

Msg(to, ev, data, via) == [to |-> to, ev |-> ev, data |-> data, via |-> via]

\* socket.emit(ev, data)
EmitSelf(s, ev, data) == {Msg(s, ev, data, SidRoom(s))}

\* io.to(r).emit(ev, data), with the membership sr
EmitRoom(sr, r, ev, data) ==
    {Msg(c, ev, data, r) : c \in {x \in Conns : \E i \in 1..Len(sr[x]) : sr[x][i] = r}}

\* The broadcast with the payload dropped on the way.
BroadcastEmpty(s, r, ev, data) == {Msg(c, ev, <<>>, r) : c \in Members(r) \ {s}}

\* socket.to(r).emit(ev, data): everyone in r but the sender
Broadcast(s, r, ev, data) == {Msg(c, ev, data, r) : c \in Members(r) \ {s}}

\* Array.from(socket.rooms).filter(r => r !== socket.id)
OtherRooms(s) == SelectSeq(socketRooms[s], LAMBDA r : r # SidRoom(s))

\* The memberships the adapter holds, the sockets' own rooms aside.
RECURSIVE SumJoined(_)
SumJoined(S) ==
    IF S = {} THEN 0
    ELSE LET x == CHOOSE y \in S : TRUE
         IN Len(OtherRooms(x)) + SumJoined(S \ {x})

Event(name, s, arg) == [name |-> name, from |-> s, arg |-> arg]

\* An exception leaves a handler: nothing catches it, the process ends, and
\* with it go every connection and everything the broker held in memory.
Throw(name, s, arg) ==
    /\ crashed' = TRUE
    /\ status' = [c \in Conns |-> IF status[c] = "idle" THEN "idle" ELSE "closed"]
    /\ socketRooms' = [c \in Conns |-> <<>>]
    /\ activeRooms' = <<>>
    /\ queues' = [role \in Roles |-> [emotion \in Emotions |-> <<>>]]
    /\ emitted' = {}
    /\ lastEvent' = Event(name, s, arg)

\* Socket ids are opaque and interchangeable: sockets connect in index order.
NextToConnect(s) ==
    \A i, j \in DOMAIN SocketOrder :
        (SocketOrder[i] = s /\ j < i) => status[SocketOrder[j]] # "idle"

\* io.on('connection'): the socket is in its own room
Connection(s) ==
    /\ ~crashed
    /\ status[s] = "idle"
    /\ NextToConnect(s)
    /\ status' = [status EXCEPT ![s] = "connected"]
    /\ socketRooms' = [socketRooms EXCEPT ![s] = <<SidRoom(s)>>]
    /\ emitted' = {}
    /\ lastEvent' = Event("connection", s, <<>>)
    /\ UNCHANGED <<activeRooms, queues, crashed>>

\* ------------------------------------------------------ server/server.js
\* activeRooms[roomCode] on a plain object: an own entry, an inherited
\* property, or undefined.
Lookup(roomCode) ==
    IF roomCode \in DOMAIN activeRooms THEN "own"
    ELSE IF roomCode \in ProtoKeys THEN "inherited"
    ELSE "undefined"

\* Bound of the model: a join that adds a membership needs room under the cap.
CanJoin(s, r) == InRoom(s, r) \/ SumJoined(Conns) < MaxJoined

\* The store that keeps a record the code already has.
StoreIfAbsent(roomCode, room) == activeRooms @@ (roomCode :> room)

\* activeRooms[roomCode] = room
Store(roomCode, room) == (roomCode :> room) @@ activeRooms

create_room(s) ==
    /\ ~crashed
    /\ status[s] = "connected"
    /\ \E roomCode \in generateRoomCode :
        /\ CanJoin(s, CodeRoom(roomCode))
        /\ activeRooms' = Store(roomCode, [users |-> <<s>>, locked |-> FALSE])
        /\ socketRooms' = Join(s, CodeRoom(roomCode))
        /\ emitted' = EmitSelf(s, "room_created", <<roomCode>>)
    /\ lastEvent' = Event("create_room", s, <<>>)
    /\ UNCHANGED <<status, queues, crashed>>

\* The check with the lock forgotten and the count off by one.
RoomClosedOverTwo(room) == Len(room.users) > 2

\* if (room.locked || room.users.length >= 2)
RoomClosed(room) == room.locked \/ Len(room.users) >= 2

\* The join with the lock forgotten.
JoinedUnlocked(room, s) == [users |-> Append(room.users, s), locked |-> room.locked]

\* room.users.push(socket.id); room.locked = true
Joined(room, s) == [users |-> Append(room.users, s), locked |-> TRUE]

join_room(s, roomCode) ==
    /\ ~crashed
    /\ status[s] = "connected"
    /\ CASE Lookup(roomCode) = "undefined" ->
              /\ emitted' = EmitSelf(s, "error", <<NotFoundMsg>>)
              /\ lastEvent' = Event("join_room", s, <<roomCode>>)
              /\ UNCHANGED <<status, socketRooms, activeRooms, queues, crashed>>
         [] Lookup(roomCode) = "inherited" ->
              \* room.locked is undefined, room.users is undefined:
              \* room.users.length is a TypeError
              Throw("join_room", s, <<roomCode>>)
         [] Lookup(roomCode) = "own" /\ RoomClosed(activeRooms[roomCode]) ->
              /\ emitted' = EmitSelf(s, "error", <<FullMsg>>)
              /\ lastEvent' = Event("join_room", s, <<roomCode>>)
              /\ UNCHANGED <<status, socketRooms, activeRooms, queues, crashed>>
         [] OTHER ->
              /\ CanJoin(s, CodeRoom(roomCode))
              /\ activeRooms' = [activeRooms EXCEPT ![roomCode] = Joined(@, s)]
              /\ socketRooms' = Join(s, CodeRoom(roomCode))
              /\ emitted' = EmitRoom(socketRooms', CodeRoom(roomCode), "start_chat", <<>>)
              /\ lastEvent' = Event("join_room", s, <<roomCode>>)
              /\ UNCHANGED <<status, queues, crashed>>

send_message(s, data) ==
    /\ ~crashed
    /\ status[s] = "connected"
    /\ emitted' = IF Len(OtherRooms(s)) > 0
                  THEN Broadcast(s, OtherRooms(s)[1], "receive_message", <<data>>)
                  ELSE {}
    /\ lastEvent' = Event("send_message", s, <<data>>)
    /\ UNCHANGED <<status, socketRooms, activeRooms, queues, crashed>>

\* The events a client of the chat sends that server.js registers no
\* listener for: Socket.IO drops them.
Unlistened == {"typing_start", "typing_stop"}

no_listener(s, name) ==
    /\ ~crashed
    /\ status[s] = "connected"
    /\ emitted' = {}
    /\ lastEvent' = Event(name, s, <<>>)
    /\ UNCHANGED <<status, socketRooms, activeRooms, queues, crashed>>

\* The loop destroying only the rooms s created.
RoomsToDestroyOwned(s) ==
    {code \in DOMAIN activeRooms :
        InRoom(s, CodeRoom(code)) /\ activeRooms[code].users[1] = s}

\* The codes of the rooms of s that have a record: the loop of 'disconnecting'
\* notifies and deletes each of them.
RoomsToDestroy(s) ==
    {code \in DOMAIN activeRooms : InRoom(s, CodeRoom(code))}

\* 'disconnecting' runs with socket.rooms still filled; the socket then leaves
\* all its rooms and is closed.
disconnecting(s) ==
    /\ ~crashed
    /\ status[s] = "connected"
    /\ emitted' = UNION {Broadcast(s, CodeRoom(code), "partner_left", <<>>) :
                           code \in RoomsToDestroy(s)}
    /\ activeRooms' = [code \in DOMAIN activeRooms \ RoomsToDestroy(s) |->
                         activeRooms[code]]
    /\ socketRooms' = [socketRooms EXCEPT ![s] = <<>>]
    /\ status' = [status EXCEPT ![s] = "closed"]
    /\ lastEvent' = Event("disconnecting", s, <<>>)
    /\ UNCHANGED <<queues, crashed>>

\* ------------------------------------------------------ unnamed/part_000
\* queues[role][emotion] on plain objects.  For a tag a client has queued
\* for it is the array addToQueue made; for any other tag it is undefined,
\* which findMatch and addToQueue both treat as the empty list (the one skips
\* it, the other creates it before the push), so the model holds <<>> there.
\* A name {} inherits from Object.prototype yields that inherited value.
QueueLookup(role, emotion) ==
    IF emotion \in ProtoKeys THEN "inherited" ELSE "list"

\* The ternary with its branches swapped: a venter looks in the vent list.
TargetRoleSame(role) == IF role = "vent" THEN "vent" ELSE "listen"

\* const targetRole = role === 'vent' ? 'listen' : 'vent'
TargetRole(role) == IF role = "vent" THEN "listen" ELSE "vent"

\* The waiting entries of all lists together.
RECURSIVE SumLen(_, _)
SumLen(q, S) ==
    IF S = {} THEN 0
    ELSE LET k == CHOOSE y \in S : TRUE
         IN Len(q[k[1]][k[2]]) + SumLen(q, S \ {k})

Queued(q) == SumLen(q, Roles \X Emotions)

\* The push at the front of the line.
addToQueueFront(q, socketId, role, emotion) ==
    [q EXCEPT ![role][emotion] = <<socketId>> \o @]

\* addToQueue on the queues q: push at the end of the line
addToQueue(q, socketId, role, emotion) ==
    [q EXCEPT ![role][emotion] = Append(@, socketId)]

\* The pop forgotten.
ShiftNone(q, role, emotion) == q

\* The pop at the end of the line.
ShiftLast(q, role, emotion) ==
    [q EXCEPT ![role][emotion] = SubSeq(@, 1, Len(@) - 1)]

\* targetQueue.shift()
Shift(q, role, emotion) == [q EXCEPT ![role][emotion] = Tail(@)]

\* The requester alone joins the room.
JoinOne(socketId, partnerId, roomId) == Join(socketId, roomId)

\* mySock.join(roomId); partnerSock.join(roomId)
JoinBoth(socketId, partnerId, roomId) ==
    LET one == Join(socketId, roomId)
    IN IF \E i \in 1..Len(one[partnerId]) : one[partnerId][i] = roomId
       THEN one
       ELSE [one EXCEPT ![partnerId] = Append(@, roomId)]

\* Bound of the model: the memberships a match adds fit under the cap.
CanMatch(socketId, partnerId) ==
    SumJoined(Conns) + (IF socketId = partnerId THEN 1 ELSE 2) <= MaxMatched

\* The tail of join_queue when findMatch returned false, on the queues q that
\* findMatch left: addToQueue, which throws on a role that is no key of queues.
NotMatched(q, s, role, emotion) ==
    IF role \notin Roles
    THEN Throw("join_queue", s, <<role, emotion>>)
    ELSE /\ Queued(q) < MaxQueued
         /\ queues' = addToQueue(q, s, role, emotion)
         /\ emitted' = {}
         /\ lastEvent' = Event("join_queue", s, <<role, emotion>>)
         /\ UNCHANGED <<status, socketRooms, activeRooms, crashed>>

\* findMatch when the target list is not empty: the head is popped, and the
\* match is made only if both sockets are still known to the server.
findMatch(s, role, emotion) ==
    LET partnerId == Head(queues[TargetRole(role)][emotion])
        popped == Shift(queues, TargetRole(role), emotion)
        roomId == MatchRoom(s, partnerId)
    IN IF status[s] = "connected" /\ status[partnerId] = "connected"
       THEN /\ CanMatch(s, partnerId)
            /\ queues' = popped
            /\ socketRooms' = JoinBoth(s, partnerId, roomId)
            /\ emitted' = EmitRoom(socketRooms', roomId, "match_found", <<roomId>>)
            /\ lastEvent' = Event("join_queue", s, <<role, emotion>>)
            /\ UNCHANGED <<status, activeRooms, crashed>>
       ELSE NotMatched(popped, s, role, emotion)

join_queue(s, role, emotion) ==
    /\ ~crashed
    /\ status[s] = "connected"
    /\ CASE QueueLookup(TargetRole(role), emotion) = "inherited" ->
              \* targetQueue is a function object of length 1 without shift
              Throw("join_queue", s, <<role, emotion>>)
         [] QueueLookup(TargetRole(role), emotion) = "list"
              /\ Len(queues[TargetRole(role)][emotion]) > 0 ->
              findMatch(s, role, emotion)
         [] OTHER ->
              NotMatched(queues, s, role, emotion)

\* The three relays of part_000 share their shape: the first room of the
\* sender other than its own, everyone in it but the sender.
Relay(s, ev, data) ==
    IF Len(OtherRooms(s)) > 0
    THEN Broadcast(s, OtherRooms(s)[1], ev, data)
    ELSE {}

send_message_match(s, data) ==
    /\ ~crashed
    /\ status[s] = "connected"
    /\ emitted' = Relay(s, "receive_message", <<data>>)
    /\ lastEvent' = Event("send_message", s, <<data>>)
    /\ UNCHANGED <<status, socketRooms, activeRooms, queues, crashed>>

typing_start(s) ==
    /\ ~crashed
    /\ status[s] = "connected"
    /\ emitted' = Relay(s, "partner_typing", <<TRUE>>)
    /\ lastEvent' = Event("typing_start", s, <<>>)
    /\ UNCHANGED <<status, socketRooms, activeRooms, queues, crashed>>

typing_stop(s) ==
    /\ ~crashed
    /\ status[s] = "connected"
    /\ emitted' = Relay(s, "partner_typing", <<FALSE>>)
    /\ lastEvent' = Event("typing_stop", s, <<>>)
    /\ UNCHANGED <<status, socketRooms, activeRooms, queues, crashed>>

\* socket.rooms as the 'disconnect' handler reads it: Socket.IO has already
\* taken the socket out of all its rooms when it emits 'disconnect'.
RoomsAtDisconnect(s) == SelectSeq(<<>>, LAMBDA r : r # SidRoom(s))

\* 'disconnect': the partner is notified through the first room read there;
\* the waiting lists are not touched.
disconnect(s) ==
    /\ ~crashed
    /\ status[s] = "connected"
    /\ socketRooms' = [socketRooms EXCEPT ![s] = <<>>]
    /\ status' = [status EXCEPT ![s] = "closed"]
    /\ emitted' = IF Len(RoomsAtDisconnect(s)) > 0
                  THEN Broadcast(s, RoomsAtDisconnect(s)[1], "partner_disconnected", <<>>)
                  ELSE {}
    /\ lastEvent' = Event("disconnect", s, <<>>)
    /\ UNCHANGED <<activeRooms, queues, crashed>>

\* --------------------------------------------------------- specifications
InitTransport ==
    /\ status = [s \in Conns |-> "idle"]
    /\ socketRooms = [s \in Conns |-> <<>>]
    /\ emitted = {}
    /\ lastEvent = Event("listen", "", <<>>)
    /\ crashed = FALSE

InitRooms ==
    /\ InitTransport
    /\ activeRooms = <<>>
    /\ queues = [role \in Roles |-> [emotion \in Emotions |-> <<>>]]

NextRooms ==
    \E s \in Conns :
        \/ Connection(s)
        \/ create_room(s)
        \/ \E roomCode \in Codes \cup ProtoKeys : join_room(s, roomCode)
        \/ \E data \in Payloads : send_message(s, data)
        \/ \E name \in Unlistened : no_listener(s, name)
        \/ disconnecting(s)

SpecRooms == InitRooms /\ [][NextRooms]_vars

InitMatch ==
    /\ InitTransport
    /\ activeRooms = <<>>
    /\ queues = [role \in Roles |-> [emotion \in Emotions |-> <<>>]]

\* Matchmaking alone: the handlers that change the queues or the rooms.
NextMatch ==
    \E s \in Conns :
        \/ Connection(s)
        \/ \E role \in Roles \cup {"other"}, emotion \in Emotions \cup ProtoKeys :
              join_queue(s, role, emotion)
        \/ disconnect(s)

SpecMatch == InitMatch /\ [][NextMatch]_vars

\* The whole of part_000: matchmaking and the relays.
NextChat ==
    \E s \in Conns :
        \/ Connection(s)
        \/ \E role \in Roles \cup {"other"}, emotion \in Emotions \cup ProtoKeys :
              join_queue(s, role, emotion)
        \/ \E data \in Payloads : send_message_match(s, data)
        \/ typing_start(s)
        \/ typing_stop(s)
        \/ disconnect(s)

SpecChat == InitMatch /\ [][NextChat]_vars


\* ------------------------------------------------------------- vocabulary
\* of the properties
Elems(seq) == {seq[i] : i \in DOMAIN seq}

\* The rooms of c, its own aside, that hold somebody else too: the paired
\* channels (sessions) c belongs to.
PairedRooms(c) == {r \in Elems(OtherRooms(c)) : Members(r) \ {c} # {}}

\* Whom a message of c reaches: the relays use the first room of c.
RelayTargets(c) ==
    IF Len(OtherRooms(c)) > 0 THEN Members(OtherRooms(c)[1]) \ {c} ELSE {}

\* How often c stands in the waiting lists.
Occurrences(c) ==
    Cardinality({<<role, emotion, i>> \in Roles \X Emotions \X (1..MaxQueued + 1) :
                    /\ i <= Len(queues[role][emotion])
                    /\ queues[role][emotion][i] = c})

\* The events of name ev the last handler sent, and who got them.
Sent(ev) == {m \in emitted : m.ev = ev}
Receivers(ev) == {m.to : m \in Sent(ev)}

\* The last handler was `name`, and it ran to its end.
Handled(name) == lastEvent.name = name /\ ~crashed

\* -------------------------------------------------------------------- C1
\* C1: every connection belongs to at most one session, and each side of a
\* session can reach the other.  A session of the rendezvous broker is a
\* locked room of two connections; a side reaches whom its messages are
\* relayed to.  Stated as the claim has it; a connection that creates or
\* joins a second room violates it.
SessionCodes(a) ==
    {code \in DOMAIN activeRooms :
        /\ activeRooms[code].locked
        /\ a \in Elems(activeRooms[code].users)
        /\ Elems(activeRooms[code].users) # {a}}

C1_OneSymmetricSession ==
    \A a \in Conns :
        /\ Cardinality(SessionCodes(a)) <= 1
        /\ \A code \in SessionCodes(a) :
               Elems(activeRooms[code].users) \ {a} \subseteq RelayTargets(a)

\* -------------------------------------------------------------------- C2
\* C2: no connection is at once in a waiting list and in a session, and
\* right after a match neither matched connection stands in any waiting
\* list.  Stated as the claim has it, for a match of two connections (C4 is
\* about a match of one with itself); join_queue violates it.
C2_QueuedXorPaired ==
    /\ \A c \in Conns : ~(Occurrences(c) > 0 /\ PairedRooms(c) # {})
    /\ \A m \in Sent("match_found") : m.via[2] # m.via[3] => Occurrences(m.to) = 0

\* -------------------------------------------------------------------- C3
\* C3: a connection stands in at most one waiting list, and at most once in
\* it.  Stated as the claim has it; a second join_queue violates it.
C3_QueuedAtMostOnce == \A c \in Conns : Occurrences(c) <= 1

\* -------------------------------------------------------------------- C4
\* C4: no match is ever formed of a connection with itself.  Stated as the
\* claim has it; a waiter that asks again in the other role violates it.
C4_NoSelfMatch ==
    /\ \A c \in Conns : ~InRoom(c, MatchRoom(c, c))
    /\ \A m \in Sent("match_found") : m.via[2] # m.via[3]

\* -------------------------------------------------------------------- C5
\* C5: while the room of a code is locked with its two parties, the
\* start_chat, receive_message and partner_left events sent through that
\* code reach nobody but these two.  Stated as the claim has it; a code that
\* comes up again violates it.
C5_NoThirdParty ==
    \A code \in DOMAIN activeRooms :
        (/\ activeRooms[code].locked
         /\ Cardinality(Elems(activeRooms[code].users)) = 2) =>
            \A m \in emitted :
                (/\ m.via = CodeRoom(code)
                 /\ m.ev \in {"start_chat", "receive_message", "partner_left"})
                    => m.to \in Elems(activeRooms[code].users)

\* -------------------------------------------------------------------- C6
\* C6: a room never holds more than two occupants, and a join_room for the
\* code of a locked room sends the Full error to the requester alone and
\* leaves the room table and the memberships as they were.
C6_Capacity == \A code \in DOMAIN activeRooms : Len(activeRooms[code].users) <= 2

C6_LockedStep ==
    \A code \in DOMAIN activeRooms :
        (/\ activeRooms[code].locked
         /\ lastEvent'.name = "join_room"
         /\ lastEvent'.arg = <<code>>)
            => /\ emitted' = {Msg(lastEvent'.from, "error", <<FullMsg>>,
                                  SidRoom(lastEvent'.from))}
               /\ UNCHANGED <<activeRooms, socketRooms, status, crashed>>

C6_LockedRoomRejects == []C6_Capacity /\ [][C6_LockedStep]_vars

\* A third socket was turned away from a room the other two had locked.
C6_Witness ==
    /\ Handled("join_room")
    /\ Receivers("error") = {lastEvent.from}
    /\ \E code \in DOMAIN activeRooms :
        /\ lastEvent.arg = <<code>>
        /\ activeRooms[code].locked
        /\ Cardinality(Elems(activeRooms[code].users)) = 2
        /\ lastEvent.from \notin Elems(activeRooms[code].users)

\* -------------------------------------------------------------------- C7
\* C7: a join_room by B that succeeds on the room A created leaves the
\* occupants <<A, B>> and sends start_chat to A and B and to nobody else.
\* Stated as the claim has it, for a joiner other than the creator; a socket
\* left in the channel of the code violates it.
C7_ExactlyCreatorAndJoiner ==
    (Handled("join_room") /\ Sent("start_chat") # {}) =>
        \E code \in DOMAIN activeRooms :
            LET users == activeRooms[code].users
            IN /\ lastEvent.arg = <<code>>
               /\ Len(users) = 2
               /\ users[2] = lastEvent.from
               /\ users[1] # users[2] => Receivers("start_chat") = {users[1], users[2]}

\* -------------------------------------------------------------------- C8
\* C8: a join_room with a code that has no room sends the NotFound error to
\* the requester and changes nothing.  Stated as the claim has it; a code
\* that names an inherited property of the table violates it.
C8_UnknownStep ==
    (/\ lastEvent'.name = "join_room"
     /\ lastEvent'.arg[1] \notin DOMAIN activeRooms)
        => /\ emitted' = {Msg(lastEvent'.from, "error", <<NotFoundMsg>>,
                              SidRoom(lastEvent'.from))}
           /\ UNCHANGED <<activeRooms, socketRooms, status, crashed>>

C8_UnknownCodeNotFound == [][C8_UnknownStep]_vars

\* -------------------------------------------------------------------- C9
\* C9: no waiting list holds the id of a connection that has disconnected.
\* Stated as the claim has it; 'disconnect' leaves the lists alone.
C9_NoGhostQueued == \A c \in Conns : status[c] = "closed" => Occurrences(c) = 0

\* ------------------------------------------------------------------- C10
\* C10: when a socket disconnects, the record of every room it occupies is
\* removed and the socket is left in no channel; a code without a record
\* gets one only from a create_room that returns this code; and until then
\* every join_room with it gets the NotFound error.
C10_DisconnectStep ==
    \A s \in Conns :
        (lastEvent'.name = "disconnecting" /\ lastEvent'.from = s) =>
            /\ \A code \in DOMAIN activeRooms :
                   s \in Elems(activeRooms[code].users) => code \notin DOMAIN activeRooms'
            /\ socketRooms'[s] = <<>>
            /\ \A code \in DOMAIN activeRooms' : s \notin Elems(activeRooms'[code].users)

C10_CodeStaysGone ==
    \A code \in Codes :
        code \notin DOMAIN activeRooms =>
            /\ code \in DOMAIN activeRooms' =>
                   /\ lastEvent'.name = "create_room"
                   /\ emitted' = {Msg(lastEvent'.from, "room_created", <<code>>,
                                      SidRoom(lastEvent'.from))}
            /\ (lastEvent'.name = "join_room" /\ lastEvent'.arg = <<code>>) =>
                   emitted' = {Msg(lastEvent'.from, "error", <<NotFoundMsg>>,
                                   SidRoom(lastEvent'.from))}

C10_DisconnectRemovesRoom == [][C10_DisconnectStep /\ C10_CodeStaysGone]_vars

\* A socket left the room it shared, and a third socket that then asked for
\* the code was told the room does not exist.
C10_Witness ==
    /\ Handled("join_room")
    /\ Sent("error") = {Msg(lastEvent.from, "error", <<NotFoundMsg>>, SidRoom(lastEvent.from))}
    /\ \E gone \in Conns, left \in Conns \ {lastEvent.from} :
        /\ status[gone] = "closed"
        /\ status[left] = "connected"
        /\ lastEvent.arg[1] \in Codes
        /\ InRoom(left, CodeRoom(lastEvent.arg[1]))

\* ------------------------------------------------------------------- C11
\* The connected sockets that share a room, its own aside, with s.
Peers(s) ==
    {p \in Conns \ {s} :
        status[p] = "connected" /\ \E r \in Elems(OtherRooms(s)) : InRoom(p, r)}

PeerGone == {"partner_left", "partner_disconnected"}

\* C11: in the step in which a member of a session disconnects, the other
\* member is sent the notification that its peer is gone.  Stated as the
\* claim has it; the 'disconnect' handler of the matchmaking broker, which
\* reads socket.rooms after the socket has left its rooms, violates it.
C11_DisconnectStep ==
    lastEvent'.name \in {"disconnect", "disconnecting"} =>
        \A p \in Peers(lastEvent'.from) :
            \E m \in emitted' : m.to = p /\ m.ev \in PeerGone

C11_PeerNotified == [][C11_DisconnectStep]_vars

\* ------------------------------------------------------------------- C12
\* The codes of the records s occupies.
OccupiedCodes(s) == {code \in DOMAIN activeRooms : s \in Elems(activeRooms[code].users)}

\* C12: the disconnect of a connection whose session is already gone (it
\* occupies no record of the room table any more) is a no-op: it changes no
\* record and notifies nobody.  Stated as the claim has it; a connection left
\* in the channel of a code that has been given out again violates it.
C12_DisconnectStep ==
    (lastEvent'.name = "disconnecting" /\ OccupiedCodes(lastEvent'.from) = {}) =>
        /\ activeRooms' = activeRooms
        /\ \A m \in emitted' : m.ev \notin PeerGone

C12_CascadeIdempotent == [][C12_DisconnectStep]_vars

\* ------------------------------------------------------------------- C13
\* C13: a send_message of a connection that is paired with a connected peer
\* is delivered to that peer as receive_message, also when the connection
\* was in another room before that has been dissolved.  Stated as the claim
\* has it for a connection that occupies one record only, the locked room it
\* shares with its peer; the channel of the dissolved room, still the first
\* of socket.rooms, violates it.
C13_RelayStep ==
    \A s \in Conns, code \in Codes :
        (/\ lastEvent'.name = "send_message"
         /\ lastEvent'.from = s
         /\ OccupiedCodes(s) = {code}
         /\ activeRooms[code].locked)
            => \A p \in Elems(activeRooms[code].users) \ {s} :
                   (status[p] = "connected" /\ InRoom(p, CodeRoom(code)))
                       => \E m \in emitted' :
                              /\ m.to = p
                              /\ m.ev = "receive_message"
                              /\ m.data = lastEvent'.arg

C13_RelayReachesPeer == [][C13_RelayStep]_vars

\* ------------------------------------------------------------------- C14
\* C14: every receive_message the broker delivers comes from a send_message
\* and carries exactly the payload of that send_message, text or image.
C14_ContentPreserved ==
    \A m \in Sent("receive_message") :
        /\ lastEvent.name = "send_message"
        /\ m.data = lastEvent.arg

\* An image went from one party of a locked room to the other.
C14_Witness ==
    /\ Handled("send_message")
    /\ lastEvent.arg = <<[image |-> "base64"]>>
    /\ \E code \in SessionCodes(lastEvent.from) :
           \E p \in Elems(activeRooms[code].users) \ {lastEvent.from} :
               Msg(p, "receive_message", <<[image |-> "base64"]>>, CodeRoom(code))
                   \in emitted

\* ------------------------------------------------------------------- C15
\* C15: a send_message of a connection without a session (it shares no
\* locked room with anybody) reaches nobody and changes nothing.  Stated as
\* the claim has it; two owners whom generateRoomCode gave the same code,
\* neither with a joiner, violate it.
C15_SwallowStep ==
    (/\ lastEvent'.name = "send_message"
     /\ SessionCodes(lastEvent'.from) = {})
        => /\ emitted' = {}
           /\ UNCHANGED <<activeRooms, socketRooms, queues, status, crashed>>

C15_NoSessionSwallowed == [][C15_SwallowStep]_vars

\* ------------------------------------------------------------------- C16
\* The request join_queue has just handled: who asked, in which role, for
\* which tag.
Requester == lastEvent.from
ReqRole == lastEvent.arg[1]
ReqTag == lastEvent.arg[2]

\* The matches the last handler announced.
Matches == {m.via : m \in Sent("match_found")}

\* C16: whenever a join_queue forms a match, the partner is the head of the
\* waiting list of the target role and the tag as it stood before the
\* request, and the lists are afterwards as before but for that head.
C16_FifoStep ==
    \A room \in Matches' :
        LET target == queues[TargetRole(ReqRole')][ReqTag']
        IN /\ lastEvent'.name = "join_queue"
           /\ Len(target) > 0
           /\ room = MatchRoom(Requester', Head(target))
           /\ queues' = [queues EXCEPT ![TargetRole(ReqRole')][ReqTag'] = Tail(@)]

C16_HeadIsPartner == [][C16_FifoStep]_vars

\* A match was made from a list of two: the one who came later still waits.
C16_Witness ==
    /\ Handled("join_queue")
    /\ \E room \in Matches :
        /\ room[2] = Requester
        /\ room[3] # Requester
        /\ Len(queues[TargetRole(ReqRole)][ReqTag]) = 1
        /\ Head(queues[TargetRole(ReqRole)][ReqTag]) \notin {room[2], room[3]}

\* ------------------------------------------------------------------- C17
\* C17: a join_queue ends in one of two ways, as the list of the other role
\* and the tag decides: not empty, a match with the requester is announced
\* and the requester is not queued; empty, the requester is put at the end
\* of the list of its role and tag and no match is announced.  Stated as the
\* claim has it; a list whose head has disconnected violates it.
C17_OutcomeStep ==
    (/\ lastEvent'.name = "join_queue"
     /\ ReqRole' \in Roles
     /\ ReqTag' \in Emotions)
        => LET target == queues[TargetRole(ReqRole')][ReqTag']
           IN IF Len(target) > 0
              THEN /\ Matches' = {MatchRoom(Requester', Head(target))}
                   /\ queues'[ReqRole'][ReqTag'] = queues[ReqRole'][ReqTag']
              ELSE /\ Matches' = {}
                   /\ queues' = addToQueue(queues, Requester', ReqRole', ReqTag')
                   /\ socketRooms' = socketRooms

C17_TwoOutcomes == [][C17_OutcomeStep]_vars

\* ------------------------------------------------------------------- C18
\* C18: every match pairs the requester with the head of a list of the same
\* tag and of another role than the requester's: never two requests of the
\* same role, and of the two roles one each.
C18_PairStep ==
    \A room \in Matches' :
        \E role \in Roles \ {ReqRole'} :
            /\ Len(queues[role][ReqTag']) > 0
            /\ room = MatchRoom(Requester', Head(queues[role][ReqTag']))
            /\ queues'[role][ReqTag'] = Tail(queues[role][ReqTag'])
            /\ ReqRole' \in Roles => {role, ReqRole'} = Roles

C18_ComplementaryRoles == [][C18_PairStep]_vars

\* A listener asking for Anger was matched with another connection.
C18_Witness ==
    /\ Handled("join_queue")
    /\ ReqRole = "listen"
    /\ ReqTag = "Anger"
    /\ \E p \in Conns \ {Requester} :
        /\ Matches = {MatchRoom(Requester, p)}
        /\ InRoom(p, MatchRoom(Requester, p))
        /\ InRoom(Requester, MatchRoom(Requester, p))

\* ------------------------------------------------------------------- C19
\* The request just handled targets the list of (role, emotion).
Targets(role, emotion) ==
    /\ lastEvent.name = "join_queue"
    /\ TargetRole(ReqRole) = role
    /\ ReqTag = emotion

\* C19: a request that targets a list which is not empty takes the head away,
\* and pairs it with the requester if it is still connected; every other step
\* leaves the list as it was or adds at its end.  So a connected waiter with
\* k entries ahead of it has k - 1 ahead after one such request and is paired
\* by the (k + 1)-th at the latest.
C19_WaitStep ==
    crashed' \/
    \A role \in Roles, emotion \in Emotions :
        LET list == queues[role][emotion]
            after == queues'[role][emotion]
        IN IF Targets(role, emotion)' /\ Len(list) > 0
           THEN /\ after = Tail(list)
                /\ status[Head(list)] = "connected" =>
                       /\ Msg(Head(list), "match_found",
                              <<MatchRoom(Requester', Head(list))>>,
                              MatchRoom(Requester', Head(list))) \in emitted'
                       /\ \E i \in 1..Len(socketRooms'[Head(list)]) :
                              socketRooms'[Head(list)][i] = MatchRoom(Requester', Head(list))
           ELSE \/ after = list
                \/ \E c \in Conns : after = Append(list, c)

C19_BoundedWait == [][C19_WaitStep]_vars

\* A request found a waiter with one entry ahead of it: that entry, whose
\* connection was gone, was taken away, the request was queued, and the
\* waiter, still connected, is now the head.
C19_Witness ==
    /\ Handled("join_queue")
    /\ ReqRole \in Roles
    /\ ReqTag \in Emotions
    /\ emitted = {}
    /\ Len(queues[TargetRole(ReqRole)][ReqTag]) > 0
    /\ status[Head(queues[TargetRole(ReqRole)][ReqTag])] = "connected"
    /\ Head(queues[TargetRole(ReqRole)][ReqTag]) # Requester
    /\ Len(queues[ReqRole][ReqTag]) > 0
    /\ queues[ReqRole][ReqTag][Len(queues[ReqRole][ReqTag])] = Requester

\* ------------------------------------------------------------------- C20
\* C20: in a session made by a room code as in one made by a match, a
\* typing_start or typing_stop of one member is forwarded to the other as
\* partner_typing true or false, and to nobody else.  Stated as the claim has
\* it for the rendezvous broker, which has no listener for the two events.
C20_TypingStep ==
    \A s \in Conns, code \in Codes :
        (/\ lastEvent'.name \in {"typing_start", "typing_stop"}
         /\ lastEvent'.from = s
         /\ SessionCodes(s) = {code}
         /\ Cardinality(Elems(activeRooms[code].users)) = 2)
            => \E p \in Elems(activeRooms[code].users) \ {s} :
                   emitted' = {Msg(p, "partner_typing",
                                   <<lastEvent'.name = "typing_start">>,
                                   CodeRoom(code))}

C20_TypingForwarded == [][C20_TypingStep]_vars

\* ------------------------------------------------------------------- C21
\* C21: a create_room that gets a code which has a record already replaces
\* the record by the one of the new creator alone, unlocked; the only event
\* sent is room_created to the new creator; and whoever occupied the room
\* before, the new creator aside, does not occupy it any more.
C21_CollisionStep ==
    \A code \in DOMAIN activeRooms :
        (/\ lastEvent'.name = "create_room"
         /\ Msg(lastEvent'.from, "room_created", <<code>>, SidRoom(lastEvent'.from))
                \in emitted')
            => /\ code \in DOMAIN activeRooms'
               /\ activeRooms'[code] = [users |-> <<lastEvent'.from>>, locked |-> FALSE]
               /\ Cardinality(emitted') = 1
               /\ \A other \in DOMAIN activeRooms \ {code} :
                      /\ other \in DOMAIN activeRooms'
                      /\ activeRooms'[other] = activeRooms[other]
               /\ \A c \in Elems(activeRooms[code].users) \ {lastEvent'.from} :
                      c \notin Elems(activeRooms'[code].users)

C21_LastWriterWins == [][C21_CollisionStep]_vars

\* A third socket was given the code two others had got before it: it owns
\* the record, and the two, still connected, are in the channel only.
C21_Witness ==
    /\ Handled("create_room")
    /\ \E code \in DOMAIN activeRooms :
        /\ emitted = {Msg(lastEvent.from, "room_created", <<code>>, SidRoom(lastEvent.from))}
        /\ activeRooms[code] = [users |-> <<lastEvent.from>>, locked |-> FALSE]
        /\ Cardinality({c \in Conns \ {lastEvent.from} :
                          status[c] = "connected" /\ InRoom(c, CodeRoom(code))}) = 2

\* ------------------------------------------------------------------- C22
\* C22: a join_room for an unlocked room of one occupant makes the requester
\* the second occupant, locks the room and sends start_chat; a join_room for
\* any other room that exists sends the Full error to the requester alone
\* and changes nothing; no room ever has three occupants.  So of two
\* connections asking for the same open room, in either order, the first
\* handled succeeds and the second is turned away.
C22_NeverThree == \A code \in DOMAIN activeRooms : Len(activeRooms[code].users) < 3

C22_JoinStep ==
    \A code \in DOMAIN activeRooms :
        (lastEvent'.name = "join_room" /\ lastEvent'.arg = <<code>>) =>
            IF ~activeRooms[code].locked /\ Len(activeRooms[code].users) = 1
            THEN /\ activeRooms' = [activeRooms EXCEPT ![code] =
                        [users |-> <<activeRooms[code].users[1], lastEvent'.from>>,
                         locked |-> TRUE]]
                 /\ Msg(lastEvent'.from, "start_chat", <<>>, CodeRoom(code)) \in emitted'
                 /\ \A m \in emitted' : m.ev = "start_chat"
            ELSE /\ emitted' = {Msg(lastEvent'.from, "error", <<FullMsg>>,
                                    SidRoom(lastEvent'.from))}
                 /\ activeRooms' = activeRooms
                 /\ socketRooms' = socketRooms

C22_AtomicJoins == []C22_NeverThree /\ [][C22_JoinStep]_vars

\* s2 and s3 both asked for the room of s1; the request of s3 was handled
\* first and s2, who had connected first, was turned away.
C22_Witness ==
    /\ Handled("join_room")
    /\ lastEvent.from = "s2"
    /\ emitted = {Msg("s2", "error", <<FullMsg>>, SidRoom("s2"))}
    /\ \E code \in DOMAIN activeRooms :
        /\ lastEvent.arg = <<code>>
        /\ activeRooms[code] = [users |-> <<"s1", "s3">>, locked |-> TRUE]
        /\ ~InRoom("s2", CodeRoom(code))

\* ------------------------------------------------------------------- C24
\* C24: every record of the room table is unlocked with an occupant list of
\* length 1 or locked with an occupant list of length 2; none is empty.
C24_LockedIffTwo ==
    \A code \in DOMAIN activeRooms :
        \/ ~activeRooms[code].locked /\ Len(activeRooms[code].users) = 1
        \/ activeRooms[code].locked /\ Len(activeRooms[code].users) = 2

\* The table holds a room still open and a room two connections have locked.
C24_Witness ==
    \E open, full \in DOMAIN activeRooms :
        /\ ~activeRooms[open].locked
        /\ Len(activeRooms[open].users) = 1
        /\ activeRooms[full].locked
        /\ Cardinality(Elems(activeRooms[full].users)) = 2

\* ------------------------------------------------------------------- C27
\* C27: when a connection disconnects, partner_left goes only to a
\* connection that shares a locked room with it, and only records it
\* occupies are deleted.  Stated as the claim has it; an owner waiting alone
\* under a code that an earlier owner, still in the channel, had got too
\* violates it.
C27_LeftStep ==
    lastEvent'.name = "disconnecting" =>
        /\ \A m \in emitted' :
               m.ev = "partner_left" =>
                   \E code \in SessionCodes(lastEvent'.from) :
                       m.to \in Elems(activeRooms[code].users)
        /\ \A code \in DOMAIN activeRooms \ OccupiedCodes(lastEvent'.from) :
               code \in DOMAIN activeRooms'

C27_OnlyRealPartner == [][C27_LeftStep]_vars

\* ------------------------------------------------------------------- C23
\* C23: a join_queue that finds one connected waiter as the whole list of
\* the other role and its tag is matched with that waiter and leaves the
\* list empty; a join_queue that finds that list empty is matched with
\* nobody and is put at the end of the list of its own role and tag.  So of
\* two requesters for one waiter, in either order, the first handled gets
\* the waiter and the second is queued.
C23_MatchStep ==
    \A role \in Roles, emotion \in Emotions :
        (/\ lastEvent'.name = "join_queue"
         /\ ReqRole' = role
         /\ ReqTag' = emotion)
            => LET target == queues[TargetRole(role)][emotion]
               IN /\ (Len(target) = 1 /\ status[Head(target)] = "connected") =>
                        /\ emitted' = {Msg(c, "match_found",
                                           <<MatchRoom(Requester', Head(target))>>,
                                           MatchRoom(Requester', Head(target))) :
                                         c \in {Requester', Head(target)}}
                        /\ queues' = [queues EXCEPT ![TargetRole(role)][emotion] = <<>>]
                  /\ Len(target) = 0 =>
                        /\ emitted' = {}
                        /\ socketRooms' = socketRooms
                        /\ queues' = addToQueue(queues, Requester', role, emotion)

C23_NoDoubleMatch == [][C23_MatchStep]_vars

\* s2 and s3 both asked for the waiter s1; the request of s3 was handled
\* first and got s1, and s2 is queued alone in the list of its role and tag.
C23_Witness ==
    /\ Handled("join_queue")
    /\ Requester = "s2"
    /\ ReqRole \in Roles
    /\ ReqTag \in Emotions
    /\ emitted = {}
    /\ queues[ReqRole][ReqTag] = <<"s2">>
    /\ queues[TargetRole(ReqRole)][ReqTag] = <<>>
    /\ socketRooms["s1"] = <<SidRoom("s1"), MatchRoom("s3", "s1")>>
    /\ socketRooms["s3"] = <<SidRoom("s3"), MatchRoom("s3", "s1")>>
    /\ socketRooms["s2"] = <<SidRoom("s2")>>

\* ------------------------------------------------------------------- C25
\* C25: for every tag, the vent list and the listen list are never both
\* non-empty.  Stated as the claim has it; a request that takes away an
\* entry whose connection is gone and is then queued, while a connected
\* waiter stood behind that entry, violates it.
C25_NotBothWaiting ==
    \A emotion \in Emotions :
        ~(Len(queues["vent"][emotion]) > 0 /\ Len(queues["listen"][emotion]) > 0)

\* ------------------------------------------------------------------- C26
\* How often c stands in a list.
Count(list, c) == Cardinality({i \in DOMAIN list : list[i] = c})

\* C26: a step that takes an entry of a connection out of a waiting list,
\* the connection being connected after the step, sends match_found for
\* the room of the requester and that connection to both of them and puts
\* the connection in that room.
C26_RemovalStep ==
    \A c \in Conns, role \in Roles, emotion \in Emotions :
        (/\ Count(queues'[role][emotion], c) < Count(queues[role][emotion], c)
         /\ status'[c] = "connected")
            => /\ lastEvent'.name = "join_queue"
               /\ \A to \in {c, Requester'} :
                      Msg(to, "match_found", <<MatchRoom(Requester', c)>>,
                          MatchRoom(Requester', c)) \in emitted'
               /\ \E i \in 1..Len(socketRooms'[c]) :
                      socketRooms'[c][i] = MatchRoom(Requester', c)

C26_NeverDropped == [][C26_RemovalStep]_vars

\* A venter took a listener out of the Anxiety list: both are in their room
\* and the listener stands in no list any more.
C26_Witness ==
    /\ Handled("join_queue")
    /\ ReqRole = "vent"
    /\ ReqTag = "Anxiety"
    /\ \E p \in Conns \ {Requester} :
        /\ status[p] = "connected"
        /\ Receivers("match_found") = {p, Requester}
        /\ InRoom(p, MatchRoom(Requester, p))
        /\ Occurrences(p) = 0

=============================================================================
